---------------------------- MODULE Spec2Model ----------------------------
(***************************************************************************)
(* A model of the YOLOv4 layer-graph assembler and detection-head decoder  *)
(* (py_src/yolov4/tf/model.py) and of the tflite front end's aggregation   *)
(* (py_src/yolov4/tflite/__init__.py).                                     *)
(*                                                                         *)
(* The specifications share the variables below; each drives one part of   *)
(* the program and leaves the other parts idle:                            *)
(*   SpecModel      YOLOv4Model.__init__ and YOLOv4Model.call              *)
(*   SpecHead       YOLOv3Head.__init__, build and call                    *)
(*   SpecRoute      the route-with-groups branch of call, _split_and_get   *)
(*   SpecPredict    YOLOv4.load_tflite and YOLOv4.predict                  *)
(*   SpecAggregate  either SpecModel or SpecPredict                        *)
(***************************************************************************)
EXTENDS Integers, Sequences, FiniteSets, TLC

VARIABLES
    \* ---- YOLOv4Model
    config,         \* self._model_config: the ordered layer table
    model_layers,   \* self._model_layers
    pc,             \* "new" | "built" | "call" | "done" | "error"
    pos,            \* position of call's loop in the layer table (1-based)
    output,         \* call's local list `output`
    return_val,     \* call's local list `return_val`
    err,            \* the exception that ended call ("" when none)
    \* ---- YOLOv3Head
    hcfg,           \* the head's configuration section and the net section
    hx,             \* the raw input tensor handed to the head
    hpc,            \* "new" | "init" | "built" | "done" | "error"
    head,           \* the head object's fields
    hres,           \* outcome of YOLOv3Head.call
    \* ---- route with groups
    rcfg,           \* the route entry
    routput,        \* call's `output` list when the entry is reached
    rpc,            \* "ready" | "done" | "error"
    \* ---- tflite front end
    interp,         \* the compiled model behind tflite.Interpreter
    yolo,           \* the YOLOv4 front-end object's fields
    ppc,            \* "new" | "loaded" | "done" | "error"
    candidates      \* predict's concatenated candidates

modelVars == <<config, model_layers, pc, pos, output, return_val, err>>
headVars  == <<hcfg, hx, hpc, head, hres>>
routeVars == <<rcfg, routput, rpc>>
predVars  == <<interp, yolo, ppc, candidates>>
vars      == <<modelVars, headVars, routeVars, predVars>>

\* The parts a specification does not drive stay in these states.
ModelIdle == /\ config = <<>> /\ model_layers = <<>> /\ pc = "idle" /\ pos = 0
             /\ output = <<>> /\ return_val = <<>> /\ err = ""
HeadIdle  == /\ hcfg = <<>> /\ hx = <<>> /\ hpc = "idle" /\ head = <<>>
             /\ hres = <<>>
RouteIdle == /\ rcfg = <<>> /\ routput = <<>> /\ rpc = "idle"
PredIdle  == /\ interp = <<>> /\ yolo = <<>> /\ ppc = "idle"
             /\ candidates = <<>>

---------------------------------------------------------------------------
(* Python list semantics used throughout the source. *)

\* Whether lst[i] succeeds: Python accepts -len <= i < len, a negative index
\* counting from the end of the list.
PyInRange(lst, i) == /\ i < Len(lst)
                     /\ i >= 0 - Len(lst)

\* The 0-based position lst[i] denotes, for an index in range.
PyPos(lst, i) == IF i >= 0 THEN i ELSE Len(lst) + i

\* lst[i] for an index in range.
PyGet(lst, i) == lst[PyPos(lst, i) + 1]

RECURSIVE SumSeq(_)
SumSeq(s) == IF s = <<>> THEN 0 ELSE Head(s) + SumSeq(Tail(s))

RECURSIVE Flatten(_)
Flatten(ss) == IF ss = <<>> THEN <<>> ELSE Head(ss) \o Flatten(Tail(ss))

---------------------------------------------------------------------------
(* The layer table.  An entry carries every key the source reads; a key    *)
(* that is absent from the Python dict ("groups" on a plain route) is      *)
(* modelled by has_groups = FALSE.                                         *)

\* Largest number of entries of a layer table.
MaxLayers == 3

\* The `count` of an entry that call skips (model.py:112).
SkipCount == -1

KnownTypes == {"convolutional", "route", "shortcut", "maxpool", "upsample",
               "yolo", "net"}

\* Layer indices a route or shortcut entry may name: a backward, a self or
\* forward, and a negative (relative) reference.
RefIdx == {-1, 0, 1}

Plain(t) == [type |-> t, layers |-> <<>>, from |-> <<>>,
             has_groups |-> FALSE, groups |-> 0, group_id |-> 0]

\* Entries other than net, before their count is assigned.  "dropout" is a
\* Darknet section type the model builder has no branch for.
EntryShapes ==
    {Plain(t) : t \in {"convolutional", "maxpool", "upsample", "yolo",
                       "dropout"}}
    \cup {[Plain("route") EXCEPT !.layers = <<i>>] : i \in RefIdx}
    \cup {[Plain("route") EXCEPT !.layers = p] :
              p \in {q \in RefIdx \X RefIdx : q[1] < q[2]}}
    \cup {[Plain("route") EXCEPT !.layers = <<i>>, !.has_groups = TRUE,
                                 !.groups = 2, !.group_id = 1] :
              i \in RefIdx}
    \cup {[Plain("shortcut") EXCEPT !.from = <<i>>] : i \in RefIdx}

\* The table's counts: net carries the skip sentinel, every other entry the
\* number of non-net entries declared before it.
RECURSIVE WithCounts(_, _)
WithCounts(shapes, n) ==
    IF shapes = <<>> THEN <<>>
    ELSE LET s == Head(shapes)
             c == IF s.type = "net" THEN SkipCount ELSE n
             e == [type |-> s.type, count |-> c, layers |-> s.layers,
                   from |-> s.from, has_groups |-> s.has_groups,
                   groups |-> s.groups, group_id |-> s.group_id]
         IN  <<e>> \o WithCounts(Tail(shapes),
                                 IF s.type = "net" THEN n ELSE n + 1)

\* s with x inserted before position k (1-based).
InsertAt(s, k, x) == SubSeq(s, 1, k - 1) \o <<x>> \o SubSeq(s, k, Len(s))

\* Layer tables: up to max entries, at most one of them the net section
\* (the table is a dict with the single key "net").
Configs(max) ==
    LET body == UNION {[1..n -> EntryShapes] : n \in 1..max}
        withNet == UNION {{InsertAt(b, k, Plain("net")) : k \in 1..(Len(b) + 1)} :
                              b \in {c \in body : Len(c) < max}}
    IN  {WithCounts(c, 0) : c \in body \cup withNet}

---------------------------------------------------------------------------
(* YOLOv4Model.__init__ : one layer function per entry the if/elif chain   *)
(* has a branch for.  A layer function is recorded by its kind, the name   *)
(* it was constructed with (the entry's position in the table) and, for a  *)
(* convolution, whether the L2 regularizer was already set.                *)

Layer(kind, name, l2) == [kind |-> kind, name |-> name, l2 |-> l2]

\* LayersFor with the net branch appending a layer of its own.
LayersForNetAppends(e, name, l2) ==
    CASE e.type = "convolutional" -> <<Layer("YOLOConv2D", name, l2)>>
      [] e.type = "route" ->
            IF e.has_groups THEN <<Layer("split_and_get", name, FALSE)>>
            ELSE IF Len(e.layers) = 1 THEN <<Layer("identity", name, FALSE)>>
            ELSE <<Layer("Concatenate", name, FALSE)>>
      [] e.type = "shortcut" -> <<Layer("Add", name, FALSE)>>
      [] e.type = "maxpool" -> <<Layer("MaxPooling2D", name, FALSE)>>
      [] e.type = "upsample" -> <<Layer("UpSampling2D", name, FALSE)>>
      [] e.type = "yolo" -> <<Layer("YOLOv3Head", name, FALSE)>>
      [] e.type = "net" -> <<Layer("L2", name, FALSE)>>
      [] OTHER -> <<>>

\* The layers one entry appends (model.py:45-104); an entry of a type with
\* no branch appends nothing and raises nothing.
LayersFor(e, name, l2) ==
    CASE e.type = "convolutional" -> <<Layer("YOLOConv2D", name, l2)>>
      [] e.type = "route" ->
            IF e.has_groups THEN <<Layer("split_and_get", name, FALSE)>>
            ELSE IF Len(e.layers) = 1 THEN <<Layer("identity", name, FALSE)>>
            ELSE <<Layer("Concatenate", name, FALSE)>>
      [] e.type = "shortcut" -> <<Layer("Add", name, FALSE)>>
      [] e.type = "maxpool" -> <<Layer("MaxPooling2D", name, FALSE)>>
      [] e.type = "upsample" -> <<Layer("UpSampling2D", name, FALSE)>>
      [] e.type = "yolo" -> <<Layer("YOLOv3Head", name, FALSE)>>
      [] OTHER -> <<>>

\* The loop of __init__ from entry k on; l2 is the running `_l2`.
RECURSIVE BuildLayers(_, _, _)
BuildLayers(cfg, k, l2) ==
    IF k > Len(cfg) THEN <<>>
    ELSE LayersFor(cfg[k], k, l2)
         \o BuildLayers(cfg, k + 1, l2 \/ cfg[k].type = "net")

Construct ==
    /\ pc = "new"
    /\ model_layers' = BuildLayers(config, 1, FALSE)
    /\ pc' = "built"
    /\ UNCHANGED <<config, pos, output, return_val, err>>
    /\ UNCHANGED <<headVars, routeVars, predVars>>

---------------------------------------------------------------------------
(* YOLOv4Model.call : the walk over the layer table.  An output is         *)
(* recorded by the entry that produced it, the layer function applied and  *)
(* the indices it read `output` at, as written in the table, and the       *)
(* arguments these gave: the model input x, or outputs by 0-based position.*)

ArgX      == [src |-> "x", at |-> 0]
ArgOut(k) == [src |-> "output", at |-> k]

Out(entry, fn, reads, args) ==
    [entry |-> entry, fn |-> fn, reads |-> reads, args |-> args]

\* [output[i] for i in idxs]: every index must be in range.
AllInRange(lst, idxs) == \A k \in 1..Len(idxs) : PyInRange(lst, idxs[k])
ReadAll(lst, idxs) == [k \in 1..Len(idxs) |-> ArgOut(PyPos(lst, idxs[k]))]

\* The indices one entry reads from `output` (model.py:116-145).
ReadsOf(e) ==
    CASE e.type = "route" ->
            IF e.has_groups \/ Len(e.layers) = 1 THEN <<e.layers[1]>>
            ELSE e.layers
      [] e.type = "shortcut" -> <<e.count - 1>> \o e.from
      [] OTHER -> IF e.count = 0 THEN <<>> ELSE <<e.count - 1>>

\* The arguments handed to the layer function.
ArgsOf(e, out) ==
    IF e.type \notin {"route", "shortcut"} /\ e.count = 0 THEN <<ArgX>>
    ELSE ReadAll(out, ReadsOf(e))

CallBegin ==
    /\ pc = "built"
    /\ pc' = "call"
    /\ pos' = 1
    /\ output' = <<>>
    /\ return_val' = <<>>
    /\ UNCHANGED <<config, model_layers, err>>
    /\ UNCHANGED <<headVars, routeVars, predVars>>

\* CallSkip without its `continue`: the skipped entry runs like any other.
CallSkipFallsThrough ==
    /\ pc = "call" /\ pos <= Len(config)
    /\ config[pos].count = SkipCount
    /\ output' = Append(output, Out(pos, Layer("none", pos, FALSE), <<>>, <<ArgX>>))
    /\ pos' = pos + 1
    /\ UNCHANGED <<config, model_layers, pc, return_val, err>>
    /\ UNCHANGED <<headVars, routeVars, predVars>>

\* `continue` on the skip sentinel (model.py:112-113).
CallSkip ==
    /\ pc = "call" /\ pos <= Len(config)
    /\ config[pos].count = SkipCount
    /\ pos' = pos + 1
    /\ UNCHANGED <<config, model_layers, pc, output, return_val, err>>
    /\ UNCHANGED <<headVars, routeVars, predVars>>

\* One iteration that executes its entry (model.py:114-148).
CallLayer ==
    /\ pc = "call" /\ pos <= Len(config)
    /\ config[pos].count # SkipCount
    /\ PyInRange(model_layers, config[pos].count)
    /\ AllInRange(output, ReadsOf(config[pos]))
    /\ LET e  == config[pos]
           fn == PyGet(model_layers, e.count)
           o  == Append(output, Out(pos, fn, ReadsOf(e), ArgsOf(e, output)))
       IN  /\ output' = o
           /\ return_val' = IF e.type = "yolo"
                               THEN Append(return_val, PyGet(o, e.count))
                               ELSE return_val
    /\ pos' = pos + 1
    /\ UNCHANGED <<config, model_layers, pc, err>>
    /\ UNCHANGED <<headVars, routeVars, predVars>>

\* self._model_layers[layer_number] raises IndexError (model.py:114).
CallNoLayer ==
    /\ pc = "call" /\ pos <= Len(config)
    /\ config[pos].count # SkipCount
    /\ ~PyInRange(model_layers, config[pos].count)
    /\ pc' = "error"
    /\ err' = "IndexError: _model_layers"
    /\ UNCHANGED <<config, model_layers, pos, output, return_val>>
    /\ UNCHANGED <<headVars, routeVars, predVars>>

\* output[i] raises IndexError before anything is appended.
CallBadIndex ==
    /\ pc = "call" /\ pos <= Len(config)
    /\ config[pos].count # SkipCount
    /\ PyInRange(model_layers, config[pos].count)
    /\ ~AllInRange(output, ReadsOf(config[pos]))
    /\ pc' = "error"
    /\ err' = "IndexError: output"
    /\ UNCHANGED <<config, model_layers, pos, output, return_val>>
    /\ UNCHANGED <<headVars, routeVars, predVars>>

CallReturn ==
    /\ pc = "call" /\ pos > Len(config)
    /\ pc' = "done"
    /\ UNCHANGED <<config, model_layers, pos, output, return_val, err>>
    /\ UNCHANGED <<headVars, routeVars, predVars>>

InitModel ==
    /\ config \in Configs(MaxLayers)
    /\ model_layers = <<>> /\ pc = "new" /\ pos = 0
    /\ output = <<>> /\ return_val = <<>> /\ err = ""
    /\ HeadIdle /\ RouteIdle /\ PredIdle

NextModel ==
    \/ Construct
    \/ CallBegin
    \/ CallSkip
    \/ CallLayer
    \/ CallNoLayer
    \/ CallBadIndex
    \/ CallReturn

SpecModel == InitModel /\ [][NextModel]_vars

---------------------------------------------------------------------------
(* Properties of the layer-graph assembler.                                *)

HasUnknownType(cfg) == \E k \in 1..Len(cfg) : cfg[k].type \notin KnownTypes
AllKnownTypes(cfg)  == ~HasUnknownType(cfg)

\* The positions among the first n entries whose count is not the sentinel.
RECURSIVE Runnable(_, _)
Runnable(cfg, n) ==
    IF n = 0 THEN <<>>
    ELSE Runnable(cfg, n - 1) \o (IF cfg[n].count = -1 THEN <<>> ELSE <<n>>)

\* The positions of the entries executed so far, in execution order.
Executed == [k \in 1..Len(output) |-> output[k].entry]

\* C1 (as claimed): a layer table with an entry of a type outside
\* convolutional, route, shortcut, maxpool, upsample, yolo, net is rejected
\* while the model is constructed: the model is never built from it and
\* call never starts on it.
C1_UnknownTypeRejectedAtBuild ==
    HasUnknownType(config) => pc = "new"

\* C2 (as claimed): every index a route or shortcut entry reads names, as
\* written, an output produced earlier in the same call: it lies in
\* 0 .. (number of outputs produced before the entry) - 1, so that a
\* forward, self or wrapped-around (negative) reference is never read.
C2_NoWrapAroundRead ==
    \A k \in 1..Len(output) :
        \A j \in 1..Len(output[k].reads) :
            output[k].reads[j] \in 0..(k - 2)

\* What call does instead of the check C2 asks for: a read of `output` is
\* Python list indexing.  An index i with i >= n or i < -n, n the number of
\* outputs produced so far, ends the call in an IndexError with nothing
\* appended for the entry; a negative index -j with 1 <= j <= n is read
\* and yields the j-th most recent output.
ReadsArePythonIndexing ==
    /\ \A k \in 1..Len(output) :
          LET o == output[k]
              n == k - 1
          IN  \A j \in 1..Len(o.reads) :
                 /\ o.reads[j] < n
                 /\ o.reads[j] >= 0 - n
                 /\ o.args[j] = ArgOut(IF o.reads[j] >= 0 THEN o.reads[j]
                                       ELSE n + o.reads[j])
    /\ err = "IndexError: output" =>
          /\ pc = "error"
          /\ Len(output) = config[pos].count
          /\ \E j \in 1..Len(ReadsOf(config[pos])) :
                LET i == ReadsOf(config[pos])[j]
                IN  i >= Len(output) \/ i < 0 - Len(output)

\* C8: the entries call has executed are exactly the entries before its
\* loop position whose count is not -1, each once and in declaration order;
\* an entry whose count is -1 produces no output; when call returns, every
\* other entry of the table has been executed.
C8_SkipAndDeclarationOrder ==
    pc \in {"call", "done", "error"} =>
        /\ Executed = Runnable(config, pos - 1)
        /\ \A k \in 1..Len(output) : config[output[k].entry].count # -1
        /\ pc = "done" => Executed = Runnable(config, Len(config))

\* A call that returned after skipping an entry and executing two others.
C8_Witness ==
    /\ pc = "done"
    /\ Len(output) >= 2
    /\ \E k \in 1..Len(config) : config[k].count = -1

\* C10: in a table of known types, when call is about to execute the entry
\* with count n, exactly n outputs exist and the layer function at position
\* n was constructed for that entry.  Every output was produced by its own
\* entry's layer function; a shortcut read the preceding output and then
\* the outputs of its `from` list; every other non-route entry read the
\* preceding output, or the model input when n = 0.
C10_CountIndexesOutputsAndLayers ==
    AllKnownTypes(config) =>
      /\ (pc = "call" /\ pos <= Len(config) /\ config[pos].count # -1) =>
            /\ Len(output) = config[pos].count
            /\ config[pos].count < Len(model_layers)
            /\ model_layers[config[pos].count + 1].name = pos
      /\ \A k \in 1..Len(output) :
            LET o == output[k]
                e == config[o.entry]
                n == k - 1
            IN  /\ e.count = n
                /\ o.fn.name = o.entry
                /\ e.type = "shortcut" =>
                      /\ Len(o.args) = 1 + Len(e.from)
                      /\ o.args[1] = ArgOut(n - 1)
                      /\ \A j \in 1..Len(e.from) :
                            o.args[j + 1] = ArgOut(PyPos(SubSeq(output, 1, n),
                                                         e.from[j]))
                /\ (e.type \notin {"route", "shortcut"} /\ n > 0) =>
                      o.args = <<ArgOut(n - 1)>>
                /\ (e.type \notin {"route", "shortcut"} /\ n = 0) =>
                      o.args = <<ArgX>>

\* A shortcut executed in a completed call whose table holds the net section.
C10_Witness ==
    /\ AllKnownTypes(config)
    /\ pc = "done"
    /\ \E k \in 1..Len(config) : config[k].type = "net"
    /\ \E k \in 1..Len(output) : config[output[k].entry].type = "shortcut"

---------------------------------------------------------------------------
(* Numbers.  Python floats and float32 tensor values are modelled by exact *)
(* rationals [n, d] in lowest terms with d > 0.                            *)

Abs(a) == IF a < 0 THEN 0 - a ELSE a

RECURSIVE GCD(_, _)
GCD(a, b) == IF b = 0 THEN a ELSE GCD(b, a % b)

R(n, d) == LET g == GCD(Abs(n), Abs(d))
               sgn == IF d < 0 THEN -1 ELSE 1
           IN  [n |-> sgn * (n \div g), d |-> sgn * (d \div g)]

RAdd(a, b) == R(a.n * b.d + b.n * a.d, a.d * b.d)
RSub(a, b) == R(a.n * b.d - b.n * a.d, a.d * b.d)
RMul(a, b) == R(a.n * b.n, a.d * b.d)
RLe(a, b)  == a.n * b.d <= b.n * a.d

---------------------------------------------------------------------------
(* Tensors.  A rank-4 tensor of batch size 1 is [h, w, c, data] with data  *)
(* in row-major order; a (1, n, c) tensor is [n, c, data].  An element is  *)
(* [src, val]: the (y, x, channel) position of the raw input element it    *)
(* was computed from, and its value.                                       *)

El(src, val) == [src |-> src, val |-> val]

\* The element at (y, x, k), all 0-based.
At(t, y, x, k) == t.data[(y * t.w + x) * t.c + k + 1]

\* The tensor of shape (h, w, c) whose element at (y, x, k) is f[y, x, k].
Tensor(h, w, c, f) ==
    [h |-> h, w |-> w, c |-> c,
     data |-> [n \in 1..(h * w * c) |->
                 f[((n - 1) \div c) \div w, ((n - 1) \div c) % w, (n - 1) % c]]]

\* Channels [lo, lo + size) of t: one part of a tf.split along the last axis.
Slice(t, lo, size) ==
    Tensor(t.h, t.w, size,
           [y \in 0..(t.h - 1), x \in 0..(t.w - 1), k \in 0..(size - 1) |->
               At(t, y, x, lo + k)])

\* tf.split(t, parts, axis=-1) for a depth the parts divide evenly.
SplitEven(t, parts) ==
    [j \in 1..parts |-> Slice(t, (j - 1) * (t.c \div parts), t.c \div parts)]

\* tf.split(t, [2, 2, -1], axis=-1) for a depth of at least 4.
SplitXYWH(t) == <<Slice(t, 0, 2), Slice(t, 2, 2), Slice(t, 4, t.c - 4)>>

\* tf.concat([a, b, c], axis=-1).
Concat3Last(a, b, c) ==
    Tensor(a.h, a.w, a.c + b.c + c.c,
           [y \in 0..(a.h - 1), x \in 0..(a.w - 1),
            k \in 0..(a.c + b.c + c.c - 1) |->
               IF k < a.c THEN At(a, y, x, k)
               ELSE IF k < a.c + b.c THEN At(b, y, x, k - a.c)
               ELSE At(c, y, x, k - a.c - b.c)])

\* tf.reshape(t, (-1, n, c)) of a (1, h, w, c') tensor with h*w*c' = n*c:
\* the row-major data is kept and cut into n rows of c.
Reshape(t, shape) == [n |-> shape[2], c |-> shape[3], data |-> t.data]

\* tf.concat(ms, axis=1) with the operands in reverse order.
ConcatAxis1Reversed(ms) ==
    [n |-> SumSeq([j \in 1..Len(ms) |-> ms[j].n]), c |-> ms[1].c,
     data |-> Flatten([j \in 1..Len(ms) |-> ms[Len(ms) + 1 - j].data])]

\* tf.concat(ms, axis=1) of (1, n_j, c) tensors.
ConcatAxis1(ms) ==
    [n |-> SumSeq([j \in 1..Len(ms) |-> ms[j].n]), c |-> ms[1].c,
     data |-> Flatten([j \in 1..Len(ms) |-> ms[j].data])]

---------------------------------------------------------------------------
(* Raw values.  A raw tensor value is one of five sample logits, each      *)
(* given by its float32 images under sigmoid and exp:                      *)
(*    1: -104      sigmoid 0 (underflow)       exp 0 (underflow)           *)
(*    2: -ln 3     sigmoid 1/4                 exp 1/3                     *)
(*    3: 0         sigmoid 1/2                 exp 1                       *)
(*    4: ln 3      sigmoid 3/4                 exp 3                       *)
(*    5: 17.5      sigmoid 1 (rounded)         exp 39824784                *)

RawVals == 1..5

\* keras.activations.sigmoid on a sample logit.
Sigmoid(v) ==
    CASE v = 1 -> R(0, 1) [] v = 2 -> R(1, 4) [] v = 3 -> R(1, 2)
      [] v = 4 -> R(3, 4) [] v = 5 -> R(1, 1)

\* tf.math.exp on a sample logit.
Exp(v) ==
    CASE v = 1 -> R(0, 1) [] v = 2 -> R(1, 3) [] v = 3 -> R(1, 1)
      [] v = 4 -> R(3, 1) [] v = 5 -> R(39824784, 1)

SigmoidT(t) ==
    [t EXCEPT !.data = [n \in 1..Len(t.data) |->
                           El(t.data[n].src, Sigmoid(t.data[n].val))]]

ExpT(t) ==
    [t EXCEPT !.data = [n \in 1..Len(t.data) |->
                           El(t.data[n].src, Exp(t.data[n].val))]]

\* The correction with the de-biasing left out.
ScaleCenterNoBias(v, scale) == RMul(v, scale)

\* (xy - 0.5) * scale_x_y + 0.5 on one value (model.py:207).
ScaleCenter(v, scale) == RAdd(RMul(RSub(v, R(1, 2)), scale), R(1, 2))

ScaleT(t, scale) ==
    [t EXCEPT !.data = [n \in 1..Len(t.data) |->
                           El(t.data[n].src, ScaleCenter(t.data[n].val, scale))]]

\* t * pair for a tensor of depth 2: the pair broadcasts over the last axis.
MulPairT(t, pair) ==
    [t EXCEPT !.data = [n \in 1..Len(t.data) |->
        El(t.data[n].src, RMul(t.data[n].val, pair[((n - 1) % t.c) + 1]))]]

\* t + grid for a tensor of shape (1, h, w, 2) and a grid of shape (h, w, 2).
AddGridT(t, grid) ==
    [t EXCEPT !.data = [n \in 1..Len(t.data) |->
        El(t.data[n].src,
           RAdd(t.data[n].val,
                grid[(((n - 1) \div t.c) \div t.w) + 1]
                    [(((n - 1) \div t.c) % t.w) + 1]
                    [((n - 1) % t.c) + 1]))]]

---------------------------------------------------------------------------
(* YOLOv3Head.                                                             *)

\* Largest grid height and width.
MaxGrid == 2

\* Anchor slots a head decodes (model.py:192-198).
NumSlots == 3

\* The global anchor table of the head's configuration section.
AnchorTable == <<<<10, 13>>, <<16, 30>>, <<33, 23>>, <<30, 45>>, <<50, 40>>,
                 <<45, 53>>>>

\* Mask lists: a well-formed one, one of 2 and one of 4 anchors, and one
\* that names anchors the table does not hold.
MaskLists == {<<0, 1, 2>>, <<1, 2>>, <<0, 1, 2, 3>>, <<6, 7, 8>>}

ScaleValues == {R(1, 2), R(1, 1), R(21, 20), R(2, 1)}

ClassCounts == {1, 80}

\* Channel depths of the tensor a head receives: 3 x (5 + classes) for the
\* class counts above, one that 3 does not divide, and one too shallow for
\* the (2, 2, -1) split.
FilterCounts == {18, 255, 14, 9}

\* The raw tensor of shape (1, h, w, c) whose sample logits cycle from seed.
RawTensor(h, w, c, seed) ==
    Tensor(h, w, c,
           [y \in 0..(h - 1), x \in 0..(w - 1), k \in 0..(c - 1) |->
               El(<<y, x, k>>, ((seed + (y * w + x) * c + k) % 5) + 1)])

\* YOLOv3Head.__init__ (model.py:154-173).
HeadInitOk(cfg) == \A j \in 1..Len(cfg.mask) :
                       PyInRange(cfg.anchors, cfg.mask[j])

HeadFields(cfg) ==
    [anchors |-> [j \in 1..Len(cfg.mask) |-> PyGet(cfg.anchors, cfg.mask[j])],
     inver_image_wh |-> <<R(1, cfg.width), R(1, cfg.height)>>,
     scale_x_y |-> cfg.scale_x_y,
     grid_coord |-> <<>>, inver_grid_wh |-> <<>>, return_shape |-> <<>>]

HeadInit ==
    /\ hpc = "new"
    /\ HeadInitOk(hcfg)
    /\ head' = HeadFields(hcfg)
    /\ hpc' = "init"
    /\ UNCHANGED <<hcfg, hx, hres>>
    /\ UNCHANGED <<modelVars, routeVars, predVars>>

\* config[...]["anchors"][mask] raises IndexError (model.py:158).
HeadInitFails ==
    /\ hpc = "new"
    /\ ~HeadInitOk(hcfg)
    /\ hpc' = "error"
    /\ hres' = [ok |-> FALSE, ops |-> 0, why |-> "IndexError: anchors"]
    /\ UNCHANGED <<hcfg, hx, head>>
    /\ UNCHANGED <<modelVars, routeVars, predVars>>

\* The coordinate table with the divisors exchanged.
GridCoordSwapped(h, w) ==
    [y \in 1..h |-> [x \in 1..w |-> <<R(x - 1, h), R(y - 1, w)>>]]

\* The coordinate table of build (model.py:178-185).
GridCoord(h, w) ==
    [y \in 1..h |-> [x \in 1..w |-> <<R(x - 1, w), R(y - 1, h)>>]]

\* YOLOv3Head.build on the shape of the first input (model.py:175-189).
HeadBuild ==
    /\ hpc = "init"
    /\ head' = [head EXCEPT
                   !.grid_coord = GridCoord(hx.h, hx.w),
                   !.inver_grid_wh = <<R(1, hx.w), R(1, hx.h)>>,
                   !.return_shape = <<-1, hx.h * hx.w, hx.c \div 3>>]
    /\ hpc' = "built"
    /\ UNCHANGED <<hcfg, hx, hres>>
    /\ UNCHANGED <<modelVars, routeVars, predVars>>

\* One anchor slot of call (model.py:201-215): slot i (0-based) of the raw
\* and of the sigmoid-activated tensor.
SlotXY(h, sig_i) ==
    LET xy == SplitXYWH(sig_i)[1]
        scaled == IF h.scale_x_y # R(1, 1) THEN ScaleT(xy, h.scale_x_y)
                  ELSE xy
    IN  AddGridT(MulPairT(scaled, h.inver_grid_wh), h.grid_coord)

SlotWH(h, raw_i, i) ==
    LET anchor == PyGet(h.anchors, i)
    IN  MulPairT(MulPairT(ExpT(SplitXYWH(raw_i)[2]),
                          <<R(anchor[1], 1), R(anchor[2], 1)>>),
                 h.inver_image_wh)

SlotOut(h, raw_i, sig_i, i) ==
    Reshape(Concat3Last(SlotXY(h, sig_i), SlotWH(h, raw_i, i),
                        SplitXYWH(sig_i)[3]),
            h.return_shape)

Failed(ops, why) == [ok |-> FALSE, ops |-> ops, why |-> why, out |-> <<>>]

\* Tensor operations one slot performs before it reads its anchor.
OpsToAnchor(h) == IF h.scale_x_y # R(1, 1) THEN 8 ELSE 5

\* The loop of call from slot i on (model.py:198-217); ops counts the
\* tensor operations completed so far.
RECURSIVE SlotLoop(_, _, _, _, _, _)
SlotLoop(h, raw_split, sig_split, i, acc, ops) ==
    IF i = NumSlots
    THEN [ok |-> TRUE, ops |-> ops + 1, why |-> "", out |-> ConcatAxis1(acc)]
    ELSE IF sig_split[i + 1].c < 4
    THEN Failed(ops, "InvalidArgumentError: split sizes")
    ELSE IF ~PyInRange(h.anchors, i)
    THEN Failed(ops + OpsToAnchor(h), "IndexError: _anchors")
    ELSE SlotLoop(h, raw_split, sig_split, i + 1,
                  Append(acc, SlotOut(h, raw_split[i + 1], sig_split[i + 1], i)),
                  ops + OpsToAnchor(h) + 4)

\* YOLOv3Head.call (model.py:191-217).
HeadCallResult(h, x) ==
    IF x.c % NumSlots # 0
    THEN Failed(0, "InvalidArgumentError: split")
    ELSE SlotLoop(h, SplitEven(x, NumSlots), SplitEven(SigmoidT(x), NumSlots),
                  0, <<>>, 3)

HeadCall ==
    /\ hpc = "built"
    /\ HeadCallResult(head, hx).ok
    /\ hres' = HeadCallResult(head, hx)
    /\ hpc' = "done"
    /\ UNCHANGED <<hcfg, hx, head>>
    /\ UNCHANGED <<modelVars, routeVars, predVars>>

HeadCallFails ==
    /\ hpc = "built"
    /\ ~HeadCallResult(head, hx).ok
    /\ hres' = HeadCallResult(head, hx)
    /\ hpc' = "error"
    /\ UNCHANGED <<hcfg, hx, head>>
    /\ UNCHANGED <<modelVars, routeVars, predVars>>

InitHead ==
    /\ hcfg \in [mask : MaskLists, anchors : {AnchorTable},
                  scale_x_y : ScaleValues, classes : ClassCounts,
                  width : {416}, height : {416}]
    /\ hx \in {RawTensor(h, w, c, seed) :
                   h \in 1..MaxGrid, w \in 1..MaxGrid, c \in FilterCounts,
                   seed \in 0..4}
    /\ hpc = "new"
    /\ head = <<>>
    /\ hres = <<>>
    /\ ModelIdle /\ RouteIdle /\ PredIdle

NextHead ==
    \/ HeadInit
    \/ HeadInitFails
    \/ HeadBuild
    \/ HeadCall
    \/ HeadCallFails

SpecHead == InitHead /\ [][NextHead]_vars

---------------------------------------------------------------------------
(* Properties of the detection head.                                       *)

\* Whether build has run on the head.
HeadIsBuilt == \/ hpc \in {"built", "done"}
               \/ hpc = "error" /\ hres.why # "IndexError: anchors"

\* A head whose mask selects exactly 3 anchors and whose input depth is
\* 3 x (5 + classes).
WellFormedHead == /\ Len(hcfg.mask) = 3
                  /\ hx.c = 3 * (5 + hcfg.classes)

\* The value of the decoded element k of box b.
BoxVal(b, k) == hres.out.data[b * hres.out.c + k + 1].val

\* C3 (as claimed): a head whose mask does not select exactly 3 anchors, or
\* whose input depth is not 3 x (5 + classes), never completes a decode, and
\* when it fails it has completed no tensor operation.
C3_MalformedHeadFailsFast ==
    ~WellFormedHead =>
        /\ hpc # "done"
        /\ hpc = "error" => hres.ops = 0

\* C4: a completed decode of an (1, H, W, F) tensor holds H x W x 3 records
\* of F / 3 values (5 + classes for a well-formed head); the record at box
\* index i*H*W + y*W + x holds, in order, the values computed from channels
\* i*(F/3) .. (i+1)*(F/3) - 1 of cell (y, x), so that every (cell, slot)
\* pair has exactly one record.  A (1, 2, 2, 255) tensor gives (1, 12, 85).
C4_DecodeLayout ==
    hpc = "done" =>
        LET out == hres.out
            rec == hx.c \div 3
        IN  /\ out.n = hx.h * hx.w * 3
            /\ out.c = rec
            /\ Len(out.data) = out.n * out.c
            /\ WellFormedHead => out.c = 5 + hcfg.classes
            /\ \A i \in 0..2, y \in 0..(hx.h - 1), x \in 0..(hx.w - 1),
                  k \in 0..(rec - 1) :
                  out.data[(i * hx.h * hx.w + y * hx.w + x) * rec + k + 1].src
                      = <<y, x, i * rec + k>>
            /\ (hx.h = 2 /\ hx.w = 2 /\ hx.c = 255) =>
                  (out.n = 12 /\ out.c = 85)

\* A completed decode of a (1, 2, 2, 255) tensor by a well-formed head.
C4_Witness ==
    /\ hpc = "done" /\ WellFormedHead
    /\ hx.h = 2 /\ hx.w = 2 /\ hx.c = 255

\* C5: build leaves a coordinate table of H rows of W entries, the entry at
\* row y, column x being (x / W, y / H), no two entries equal, and inverse
\* grid dimensions (1 / W, 1 / H).
C5_GridGeometry ==
    HeadIsBuilt =>
        LET g == head.grid_coord
            cells == (1..hx.h) \X (1..hx.w)
        IN  /\ Len(g) = hx.h
            /\ \A y \in 1..hx.h : Len(g[y]) = hx.w
            /\ \A c \in cells :
                  /\ g[c[1]][c[2]][1].n * hx.w = (c[2] - 1) * g[c[1]][c[2]][1].d
                  /\ g[c[1]][c[2]][2].n * hx.h = (c[1] - 1) * g[c[1]][c[2]][2].d
            /\ \A c1 \in cells, c2 \in cells :
                  c1 # c2 =>
                    \/ g[c1[1]][c1[2]][1].n * g[c2[1]][c2[2]][1].d
                         # g[c2[1]][c2[2]][1].n * g[c1[1]][c1[2]][1].d
                    \/ g[c1[1]][c1[2]][2].n * g[c2[1]][c2[2]][2].d
                         # g[c2[1]][c2[2]][2].n * g[c1[1]][c1[2]][2].d
            /\ head.inver_grid_wh[1].n * hx.w = head.inver_grid_wh[1].d
            /\ head.inver_grid_wh[2].n * hx.h = head.inver_grid_wh[2].d

\* A head built on a grid that is not square.
C5_Witness ==
    /\ hpc = "built"
    /\ hx.h # hx.w

\* What "a small epsilon" allows.
Epsilon == R(1, 1000)

\* C6 (as claimed): every decoded x and y lies in [0, 1] up to epsilon,
\* whatever the grid-sensitivity scale.
C6_XYInUnitInterval ==
    hpc = "done" =>
        \A b \in 0..(hres.out.n - 1), k \in {0, 1} :
            /\ RLe(RSub(R(0, 1), Epsilon), BoxVal(b, k))
            /\ RLe(BoxVal(b, k), RAdd(R(1, 1), Epsilon))

\* By how much the scale lets a centre leave its cell, in cell units:
\* max(0, scale_x_y - 1) / 2.
Overshoot == IF RLe(hcfg.scale_x_y, R(1, 1)) THEN R(0, 1)
             ELSE RMul(RSub(hcfg.scale_x_y, R(1, 1)), R(1, 2))

\* C6 (amended): with s the sigmoid of the raw value, the decoded x is
\* ((s - 0.5) * scale_x_y + 0.5) / W + cellX / W when scale_x_y # 1 and
\* s / W + cellX / W otherwise, and lies in [0 - m / W, 1 + m / W] with
\* m = max(0, scale_x_y - 1) / 2; likewise y with H and cellY.  It lies in
\* [0, 1] when scale_x_y <= 1.
C6_XYWithinScaleMargin ==
    hpc = "done" =>
        \A b \in 0..(hres.out.n - 1), k \in {0, 1} :
            LET e == hres.out.data[b * hres.out.c + k + 1]
                s == Sigmoid(At(hx, e.src[1], e.src[2], e.src[3]).val)
                size == IF k = 0 THEN hx.w ELSE hx.h
                cell == IF k = 0 THEN e.src[2] ELSE e.src[1]
                inCell == IF hcfg.scale_x_y # R(1, 1)
                          THEN RAdd(RMul(RSub(s, R(1, 2)), hcfg.scale_x_y),
                                    R(1, 2))
                          ELSE s
                m == RMul(Overshoot, R(1, size))
            IN  /\ e.val = RMul(RAdd(inCell, R(cell, 1)), R(1, size))
                /\ RLe(RSub(R(0, 1), m), e.val)
                /\ RLe(e.val, RAdd(R(1, 1), m))

\* A decode with scale_x_y above 1 that put a centre beyond 1.
C6_Witness ==
    /\ hpc = "done"
    /\ ~RLe(hcfg.scale_x_y, R(1, 1))
    /\ \E b \in 0..(hres.out.n - 1), k \in {0, 1} :
          ~RLe(BoxVal(b, k), R(1, 1))

---------------------------------------------------------------------------
(* Route with groups: the branch of call at model.py:117-119 applied to    *)
(* the layer function _split_and_get built (model.py:220-225).  A tensor   *)
(* is taken at one spatial position; the element of output j at channel k  *)
(* is El(<<0, 0, k>>, j).                                                  *)

\* Largest `groups` of a route entry.
MaxGroups == 3

\* Largest channel depth of an output.
MaxDepth == 6

ChannelTensor(j, depth) ==
    Tensor(1, 1, depth, [y \in {0}, x \in {0}, k \in 0..(depth - 1) |->
                            El(<<0, 0, k>>, j)])

\* _split_and_get that ignores group_id.
SplitAndGetFirst(groups, group_id, x) == SplitEven(x, groups)[1]

\* The lambda of _split_and_get: tf.split(x, groups, axis=-1)[group_id].
SplitAndGet(groups, group_id, x) == PyGet(SplitEven(x, groups), group_id)

\* The source a route entry with groups reads (model.py:118-119).
RouteSource(e, out) == PyGet(out, e.layers[1])

RouteSplit ==
    /\ rpc = "ready"
    /\ PyInRange(routput, rcfg.layers[1])
    /\ RouteSource(rcfg, routput).c % rcfg.groups = 0
    /\ rcfg.group_id < rcfg.groups /\ rcfg.group_id >= 0 - rcfg.groups
    /\ routput' = Append(routput,
                         SplitAndGet(rcfg.groups, rcfg.group_id,
                                     RouteSource(rcfg, routput)))
    /\ rpc' = "done"
    /\ UNCHANGED rcfg
    /\ UNCHANGED <<modelVars, headVars, predVars>>

\* output[index] raises IndexError.
RouteBadIndex ==
    /\ rpc = "ready"
    /\ ~PyInRange(routput, rcfg.layers[1])
    /\ rpc' = "IndexError: output"
    /\ UNCHANGED <<rcfg, routput>>
    /\ UNCHANGED <<modelVars, headVars, predVars>>

\* tf.split raises: groups does not divide the depth.
RouteBadSplit ==
    /\ rpc = "ready"
    /\ PyInRange(routput, rcfg.layers[1])
    /\ RouteSource(rcfg, routput).c % rcfg.groups # 0
    /\ rpc' = "InvalidArgumentError: split"
    /\ UNCHANGED <<rcfg, routput>>
    /\ UNCHANGED <<modelVars, headVars, predVars>>

\* [group_id] raises IndexError on the list of partitions.
RouteBadGroup ==
    /\ rpc = "ready"
    /\ PyInRange(routput, rcfg.layers[1])
    /\ RouteSource(rcfg, routput).c % rcfg.groups = 0
    /\ ~(rcfg.group_id < rcfg.groups /\ rcfg.group_id >= 0 - rcfg.groups)
    /\ rpc' = "IndexError: group_id"
    /\ UNCHANGED <<rcfg, routput>>
    /\ UNCHANGED <<modelVars, headVars, predVars>>

InitRoute ==
    /\ rcfg \in {[Plain("route") EXCEPT !.layers = l, !.has_groups = TRUE,
                                        !.groups = g, !.group_id = i] :
                     l \in {<<0>>, <<1>>, <<-1>>, <<0, 1>>, <<1, 0>>},
                     g \in 1..MaxGroups, i \in -1..MaxGroups}
    /\ routput \in
          {<<ChannelTensor(0, c)>> : c \in 1..MaxDepth}
          \cup {<<ChannelTensor(0, c), ChannelTensor(1, d)>> :
                    c \in 1..MaxDepth, d \in 1..MaxDepth}
    /\ rpc = "ready"
    /\ ModelIdle /\ HeadIdle /\ PredIdle

NextRoute ==
    \/ RouteSplit
    \/ RouteBadIndex
    \/ RouteBadSplit
    \/ RouteBadGroup

SpecRoute == InitRoute /\ [][NextRoute]_vars

\* C9: a route entry with groups, applied with 0 <= group_id < groups to a
\* source of depth C that groups divides, appends exactly the C / groups
\* channels [group_id * C/groups, (group_id + 1) * C/groups) of the output
\* named by the first index of its `layers` list; and every channel of that
\* source lies in the partition of exactly one group_id of 0 .. groups - 1.
C9_RouteGroupsSlice ==
    (rpc = "done" /\ rcfg.group_id >= 0) =>
        LET before == SubSeq(routput, 1, Len(routput) - 1)
            first == rcfg.layers[1]
            j == IF first >= 0 THEN first ELSE Len(before) + first
            source == before[j + 1]
            part == routput[Len(routput)]
            size == source.c \div rcfg.groups
        IN  /\ source.c = size * rcfg.groups
            /\ part.c = size
            /\ Len(part.data) = size
            /\ \A k \in 0..(size - 1) :
                  part.data[k + 1] = El(<<0, 0, rcfg.group_id * size + k>>, j)
            /\ \A ch \in 0..(source.c - 1) :
                  Cardinality({g \in 0..(rcfg.groups - 1) :
                      \E k \in 1..size :
                          SplitAndGet(rcfg.groups, g, source).data[k]
                              = El(<<0, 0, ch>>, j)}) = 1

\* A later partition taken from the first of two listed sources.
C9_Witness ==
    /\ rpc = "done"
    /\ rcfg.groups >= 2 /\ rcfg.group_id >= 1
    /\ rcfg.layers = <<1, 0>>
    /\ routput[Len(routput)].c >= 2

---------------------------------------------------------------------------
(* The tflite front end.  The compiled model is given by the shape of its  *)
(* input, in units of its coarsest stride, and by its output tensors: one  *)
(* per scale, of shape (1, gridH, gridW, 3, depth), the grid a multiple of *)
(* the input (__init__.py:86-87).  The element of output tensor `index`    *)
(* at (y, x, anchor, c) is <<index, y, x, anchor, c>>.                     *)

\* Largest input height and width, in units of the coarsest stride.
MaxBase == 2

\* Largest number of output tensors.
MaxScales == 3

\* Depths of a box record.
RecordDepths == {6, 7}

\* An output tensor of shape (1, gh, gw, 3, depth), in row-major order.
ScaleTensor(index, gh, gw, depth) ==
    [shape |-> <<1, gh, gw, 3, depth>>,
     data |-> [n \in 1..(gh * gw * 3 * depth) |->
                 <<index, (((n - 1) \div depth) \div 3) \div gw,
                   (((n - 1) \div depth) \div 3) % gw,
                   ((n - 1) \div depth) % 3, (n - 1) % depth>>]]

\* The compiled model with input (bh, bw), one output per factor, listed in
\* get_output_details() under the tensor indices ids.
Interpreter(bh, bw, factors, ids, depth) ==
    [input |-> <<1, bh, bw, 3>>,
     details |-> [k \in 1..Len(ids) |-> [index |-> ids[k]]],
     tensors |-> [k \in 1..Len(ids) |->
                    ScaleTensor(ids[k], bh * factors[k], bw * factors[k],
                                depth)]]

\* interpreter.get_tensor(index).
GetTensor(it, index) ==
    it.tensors[CHOOSE k \in 1..Len(it.tensors) : it.details[k].index = index]

\* The orders in which n tensor indices can be listed.
IndexOrders(n) ==
    {p \in [1..n -> 1..n] : \A a \in 1..n, b \in 1..n : a # b => p[a] # p[b]}

\* Compiled models of up to `scales` outputs on inputs up to base x base,
\* and the standard one: input 416 x 416 at stride 32, grids 13, 26 and 52.
Interpreters(base, scales) ==
    UNION {{Interpreter(bh, bw, f, ids, d) :
                bh \in 1..base, bw \in 1..base, f \in [1..n -> {1, 2}],
                ids \in IndexOrders(n), d \in RecordDepths} :
           n \in 1..scales}
    \cup {Interpreter(13, 13, <<1, 2, 4>>, <<1, 2, 3>>, 6)}

\* YOLOv4.load_tflite (__init__.py:52-67).
LoadTflite ==
    /\ ppc = "new"
    /\ yolo' = [input_size |-> interp.input[2],
                output_index |-> [k \in 1..Len(interp.details) |->
                                     interp.details[k].index]]
    /\ ppc' = "loaded"
    /\ UNCHANGED <<interp, candidates>>
    /\ UNCHANGED <<modelVars, headVars, routeVars>>

\* The frame resized for the model: (1, input_size, input_size, channels)
\* (__init__.py:81-84).
ImageShape(y) == <<1, y.input_size, y.input_size, 3>>

\* np.reshape(candidate[0], (1, rows, -1)): the row-major data cut in rows.
NpReshape(t, rows) ==
    [n |-> rows, c |-> Len(t.data) \div rows, data |-> t.data]

\* Whether that reshape succeeds: rows must divide the size.
NpReshapeOk(t, rows) == Len(t.data) % rows = 0

\* np.concatenate(ms, axis=1) that lists the operands backwards.
NpConcatenateReversed(ms) ==
    [n |-> SumSeq([j \in 1..Len(ms) |-> ms[j].n]), c |-> ms[1].c,
     data |-> Flatten([j \in 1..Len(ms) |-> ms[Len(ms) + 1 - j].data])]

\* np.concatenate(ms, axis=1) of (1, n_j, c) arrays.
NpConcatenate(ms) ==
    [n |-> SumSeq([j \in 1..Len(ms) |-> ms[j].n]), c |-> ms[1].c,
     data |-> Flatten([j \in 1..Len(ms) |-> ms[j].data])]

\* The loop of predict (__init__.py:90-98).
Fetched(it, y) ==
    [k \in 1..Len(y.output_index) |-> GetTensor(it, y.output_index[k])]

RowsOf(t) == t.shape[2] * t.shape[2] * 3

PredictOk(it, y) ==
    /\ ImageShape(y) = it.input
    /\ \A k \in 1..Len(y.output_index) :
          NpReshapeOk(Fetched(it, y)[k], RowsOf(Fetched(it, y)[k]))
    /\ \A k \in 1..Len(y.output_index) :
          NpReshape(Fetched(it, y)[k], RowsOf(Fetched(it, y)[k])).c
              = NpReshape(Fetched(it, y)[1], RowsOf(Fetched(it, y)[1])).c

\* YOLOv4.predict up to the concatenated candidates (__init__.py:73-99).
Predict ==
    /\ ppc = "loaded"
    /\ PredictOk(interp, yolo)
    /\ candidates' = NpConcatenate(
           [k \in 1..Len(yolo.output_index) |->
               NpReshape(Fetched(interp, yolo)[k],
                         RowsOf(Fetched(interp, yolo)[k]))])
    /\ ppc' = "done"
    /\ UNCHANGED <<interp, yolo>>
    /\ UNCHANGED <<modelVars, headVars, routeVars>>

\* set_tensor, reshape or concatenate raises ValueError.
PredictFails ==
    /\ ppc = "loaded"
    /\ ~PredictOk(interp, yolo)
    /\ ppc' = "error"
    /\ UNCHANGED <<interp, yolo, candidates>>
    /\ UNCHANGED <<modelVars, headVars, routeVars>>

InitPredict ==
    /\ interp \in Interpreters(MaxBase, MaxScales)
    /\ yolo = <<>>
    /\ ppc = "new"
    /\ candidates = <<>>
    /\ ModelIdle /\ HeadIdle /\ RouteIdle

NextPredict ==
    \/ LoadTflite
    \/ Predict
    \/ PredictFails

SpecPredict == InitPredict /\ [][NextPredict]_vars

---------------------------------------------------------------------------
(* Aggregation: the program is used through YOLOv4Model or through the     *)
(* tflite front end.                                                       *)

InitAggregate == InitModel \/ InitPredict

NextAggregate == NextModel \/ NextPredict

SpecAggregate == InitAggregate /\ [][NextAggregate]_vars

\* The positions among the first n entries of the executed detection heads.
RECURSIVE HeadsDeclared(_, _)
HeadsDeclared(cfg, n) ==
    IF n = 0 THEN <<>>
    ELSE HeadsDeclared(cfg, n - 1)
         \o (IF cfg[n].count # -1 /\ cfg[n].type = "yolo" THEN <<n>> ELSE <<>>)

\* The number of boxes of the first k output tensors, grid height x grid
\* width x 3 each.
RECURSIVE BoxesBefore(_, _)
BoxesBefore(it, k) ==
    IF k = 0 THEN 0
    ELSE BoxesBefore(it, k - 1)
         + it.tensors[k].shape[2] * it.tensors[k].shape[3] * 3

\* C7: call's return value holds one output per executed detection-head
\* entry, the one that entry produced, in declaration order.  predict's
\* candidates hold, for the output tensors in output order, every box of
\* every tensor exactly once: the record of cell (y, x), anchor a of the
\* k-th tensor is at box index (boxes of the tensors before it) +
\* (y * gridW + x) * 3 + a, and the number of candidates is the sum of
\* gridH x gridW x 3; grids 13, 26 and 52 give 10647.
C7_HeadOrderAggregation ==
    /\ pc \in {"call", "done", "error"} =>
          LET heads == HeadsDeclared(config, pos - 1)
          IN  /\ Len(return_val) = Len(heads)
              /\ \A k \in 1..Len(heads) :
                    /\ return_val[k].entry = heads[k]
                    /\ return_val[k] = output[config[heads[k]].count + 1]
    /\ ppc = "done" =>
          LET n == Len(interp.details)
              depth == interp.tensors[1].shape[5]
          IN  /\ candidates.n = BoxesBefore(interp, n)
              /\ candidates.c = depth
              /\ Len(candidates.data) = candidates.n * depth
              /\ \A k \in 1..n :
                    LET t == interp.tensors[k]
                    IN  \A y \in 0..(t.shape[2] - 1), x \in 0..(t.shape[3] - 1),
                           a \in 0..2, c \in 0..(depth - 1) :
                           candidates.data[(BoxesBefore(interp, k - 1)
                                            + (y * t.shape[3] + x) * 3 + a)
                                           * depth + c + 1]
                               = <<interp.details[k].index, y, x, a, c>>
              /\ (n = 3 /\ interp.tensors[1].shape[2] = 13
                        /\ interp.tensors[2].shape[2] = 26
                        /\ interp.tensors[3].shape[2] = 52) =>
                    candidates.n = 10647

\* The candidates of three scales of different grids whose tensors are
\* listed out of index order.
C7_Witness ==
    /\ ppc = "done"
    /\ yolo.output_index = <<3, 1, 2>>
    /\ interp.tensors[1].shape[2] # interp.tensors[2].shape[2]
    /\ candidates.n = BoxesBefore(interp, 3)
    /\ candidates.n >= 27

============================================================================
